---- MODULE Spec2Model ----
(***************************************************************************)
(* nsync: building and executing system-update instructions.               *)
(*                                                                         *)
(* Two pipelines are modelled, each as a sequence of awaited steps:        *)
(*   SpecBuild  the build host: buildLoadArchiveDeltaCommand followed by   *)
(*              buildStoreSwitchCommand, over buildSystemFlake;            *)
(*   SpecExec   the target host: executeLoadArchiveDeltaCommand followed   *)
(*              by executeStoreSwitchCommand, run twice over the same      *)
(*              instruction.                                               *)
(* Store paths are integers: a package p references the package p - 1, and *)
(* the toplevel built for a host at revision r references package r.       *)
(***************************************************************************)
EXTENDS Integers, Sequences, FiniteSets, TLC

\* ------------------------------------------------------------ bounds
\* Revisions of the flake repository are 1..NumRevs.
NumRevs == 2
\* Longest deltaDependencyRevs / deltaDependencies list.
MaxDeps == 1

\* ------------------------------------------------------------ the flake and the store
Revisions == 1..NumRevs

\* `ref?: string` left out of the argument object.
Undefined == 0

\* Toplevel outputs of host k at revision r are TopBase * k + r.
TopBase == 100

Hostnames == {"testvm", "edge", "ghost"}

HostIndex(h) == IF h = "testvm" THEN 1 ELSE 2

\* `nix flake show`: the nixosConfigurations declared at a revision.
\* Revision 1 declares testvm only, later revisions add edge.
DeclaredHostnames(rev) == IF rev = 1 THEN {"testvm"} ELSE {"testvm", "edge"}

\* outputs.out of `nix build ...?rev=<rev>#nixosConfigurations.<host>...toplevel`
ToplevelOf(rev, h) == TopBase * HostIndex(h) + rev

\* drvPath of the same build
DerivationOf(rev, h) == 10 * TopBase + ToplevelOf(rev, h)

IsToplevel(p) == p > TopBase

\* PathInfo.references
References(p) ==
  IF IsToplevel(p) THEN {p % TopBase}
  ELSE IF p > 1 THEN {p - 1} ELSE {}

RECURSIVE ClosureOf(_)
\* The transitive closure of a set of roots: the fixpoint of references.
ClosureOf(roots) ==
  LET next == roots \cup UNION {References(p) : p \in roots}
  IN IF next = roots THEN roots ELSE ClosureOf(next)

SeqsUpTo(S, n) == UNION {[1..k -> S] : k \in 0..n}

Range(s) == {s[i] : i \in DOMAIN s}

\* Directories of info files are maps from file name (the store path) to content.
EmptyMap == [n \in {} |-> 0]

Overwrite(f, g) ==
  [n \in (DOMAIN f) \cup (DOMAIN g) |-> IF n \in DOMAIN g THEN g[n] ELSE f[n]]

Restrict(f, S) == [n \in S \cap (DOMAIN f) |-> f[n]]

RECURSIVE SortedSeq(_)
\* The elements of a set of store paths, in ascending order.
SortedSeq(S) ==
  IF S = {} THEN <<>>
  ELSE LET m == CHOOSE x \in S : \A y \in S : x <= y
       IN <<m>> \o SortedSeq(S \ {m})

\* ------------------------------------------------------------ errors
NoError == [kind |-> "none", op |-> "", available |-> {}]

ExternalToolFailure(op) == [kind |-> "ExternalToolFailure", op |-> op, available |-> {}]

\* Error(`Failed to parse flake info JSON: ...`), Error(`Error parsing flake build
\* command result: ...`)
ExternalOutputMalformed(op) ==
  [kind |-> "ExternalOutputMalformed", op |-> op, available |-> {}]

\* Error(`No flake configuration found for hostname: ... Available hostnames: ...`)
UnknownHostname(hostnames) ==
  [kind |-> "UnknownHostname", op |-> "buildSystemFlake", available |-> hostnames]

VARIABLES
  \* ---- build host
  flakeHead,          \* the revision the flake URI resolves to without a ref
  bargs,              \* the build arguments of the instruction
  bpc,                \* position in the build pipeline
  oldRevBuildInfos,   \* buildLoadArchiveDeltaCommand: BuildInfo[]
  newRevBuildInfo,    \* buildLoadArchiveDeltaCommand: FlakeBuildResult
  nixBuilds,          \* the <<revision, hostname>> pairs `nix build` was invoked for
  workdirArchive,     \* store paths exported into workdirArchivePath
  pathInfo,           \* result of getStoreDeltaPathsDelta
  instrArchive,       \* instructionFolderPath/archiveFolderName: data and info entries
  builtLoad,          \* the Load command returned
  builtSwitch,        \* the Switch command returned
  berror,             \* the error the build pipeline threw
  \* ---- target host
  loadCmd,            \* the serialized Load command of the instruction
  switchCmd,          \* the serialized Switch command of the instruction
  shipped,            \* the archive directory as the instruction file carries it
  storePath,          \* InstructionExecutionSharedArgs.storePath
  store,              \* store root -> the store paths present in it
  system,             \* generations of the system profile, running and boot system
  cache,              \* clientStateStorePath: info file name -> content
  archiveInfo,        \* info files of absoluteArchivePath: name -> content
  existingNarinfoFilePaths,  \* executeLoadArchiveDeltaCommand: the listed paths
  narinfoFiles,       \* executeLoadArchiveDeltaCommand: files still to copy
  epc,                \* position in the execute pipeline
  eerror,             \* the error the execute pipeline threw
  run,                \* 1 for the first execution of the instruction, 2 for the second
  log,                \* the sub-steps this execution has performed, in order
  atStart,            \* cache, store and system when this execution started
  afterFirst,         \* store and system when the first execution had succeeded
  \* ---- one call of a flake operation, with what its tools print
  acall,              \* the operation, its arguments and the tools' outcome
  aret                \* what the call returned or threw

bvars == <<flakeHead, bargs, bpc, oldRevBuildInfos, newRevBuildInfo, nixBuilds,
           workdirArchive, pathInfo, instrArchive, builtLoad, builtSwitch, berror>>

evars == <<loadCmd, switchCmd, shipped, storePath, store, system, cache, archiveInfo,
           existingNarinfoFilePaths, narinfoFiles, epc, eerror, run, log, atStart,
           afterFirst>>

avars == <<acall, aret>>

vars == <<bvars, evars, avars>>

\* ------------------------------------------------------------ nixFlake.ts
\* JavaScript values read out of parsed JSON: undefined, a string, a number.
JsUndefined == [type |-> "undefined", v |-> Undefined]

JsString(v) == [type |-> "string", v |-> v]

JsNumber(v) == [type |-> "number", v |-> v]

\* What `nix flake info --json` may print on a zero exit.
InfoShapes == {"ok", "not json", "null", "no revision", "number revision"}

\* stdout of `nix flake info --json` for a flake at revision rev
FlakeInfoStdout(shape, rev) ==
  IF shape = "ok" THEN [json |-> TRUE, type |-> "object", revision |-> JsString(rev)]
  ELSE IF shape = "not json" THEN [json |-> FALSE, type |-> "none", revision |-> JsUndefined]
  ELSE IF shape = "null" THEN [json |-> TRUE, type |-> "null", revision |-> JsUndefined]
  ELSE IF shape = "no revision"
    THEN [json |-> TRUE, type |-> "object", revision |-> JsUndefined]
  ELSE [json |-> TRUE, type |-> "object", revision |-> JsNumber(rev)]

\* try { return JSON.parse(result.stdout).revision as string } catch (e) { throw ... }
\* JSON.parse throws on text that is no JSON, the property read throws on null;
\* the cast checks nothing.
parseFlakeInfoRevision(stdout) ==
  IF ~stdout.json \/ stdout.type = "null"
    THEN [threw |-> TRUE, value |-> JsUndefined]
    ELSE [threw |-> FALSE, value |-> stdout.revision]

\* getRevisionFromRef({flakeGitUri, ref}) when the tool exits non-zero (failed)
\* or prints stdout of the given shape
getRevisionFromRefOn(ref, failed, shape) ==
  LET rev == IF ref = Undefined THEN flakeHead ELSE ref
      parsed == parseFlakeInfoRevision(FlakeInfoStdout(shape, rev))
  IN IF failed
       THEN [ok |-> FALSE, error |-> ExternalToolFailure("flake info"), value |-> JsUndefined]
     ELSE IF parsed.threw
       THEN [ok |-> FALSE, error |-> ExternalOutputMalformed("flake info"),
             value |-> JsUndefined]
     ELSE [ok |-> TRUE, error |-> NoError, value |-> parsed.value]

\* getRevisionFromRef: `nix flake info --json <uri>[?ref=<ref>]`, .revision
getRevisionFromRef(ref) == getRevisionFromRefOn(ref, FALSE, "ok").value.v

\* getFlakeHostnames: Object.keys(nixosConfigurations) at the revision, at the
\* default revision when rev is undefined
getFlakeHostnames(rev) == DeclaredHostnames(IF rev = Undefined THEN flakeHead ELSE rev)

\* What `nix build --json` may print on a zero exit.
BuildShapes == {"ok", "not json", "not array", "empty", "two", "no drvPath", "no out"}

\* stdout of `nix build --json` for hostname h at revision rev
BuildStdout(shape, rev, h) ==
  LET good == [drvPath |-> JsString(DerivationOf(rev, h)),
               out |-> JsString(ToplevelOf(rev, h))]
  IN IF shape = "ok" THEN [json |-> TRUE, type |-> "array", elems |-> <<good>>]
     ELSE IF shape = "not json" THEN [json |-> FALSE, type |-> "none", elems |-> <<>>]
     ELSE IF shape = "not array" THEN [json |-> TRUE, type |-> "object", elems |-> <<>>]
     ELSE IF shape = "empty" THEN [json |-> TRUE, type |-> "array", elems |-> <<>>]
     ELSE IF shape = "two" THEN [json |-> TRUE, type |-> "array", elems |-> <<good, good>>]
     ELSE IF shape = "no drvPath"
       THEN [json |-> TRUE, type |-> "array",
             elems |-> <<[good EXCEPT !.drvPath = JsUndefined]>>]
     ELSE [json |-> TRUE, type |-> "array", elems |-> <<[good EXCEPT !.out = JsUndefined]>>]

\* flakeBuildCommandResult.parse(JSON.parse(result.stdout)): an array of length 1
\* of { drvPath: string, outputs: { out: string } }
flakeBuildCommandResult(stdout) ==
  IF /\ stdout.json
     /\ stdout.type = "array"
     /\ Len(stdout.elems) = 1
     /\ \A i \in DOMAIN stdout.elems :
          stdout.elems[i].drvPath.type = "string" /\ stdout.elems[i].out.type = "string"
    THEN [threw |-> FALSE, drvPath |-> stdout.elems[1].drvPath.v,
          out |-> stdout.elems[1].out.v]
    ELSE [threw |-> TRUE, drvPath |-> 0, out |-> 0]

NoBuildInfo == [ok |-> FALSE, derivation |-> 0, output |-> 0, gitRevision |-> 0]

FlakeFailure(error, invoked) ==
  [ok |-> FALSE, error |-> error, built |-> invoked,
   derivation |-> 0, output |-> 0, gitRevision |-> 0]

\* The external tools buildSystemFlake awaits, in order; toolFailure names the
\* one that exits non-zero, "none" when all succeed.
ToolFailures == {"none", "flake info", "flake show", "build"}

\* The hostname test placed after the `nix build` invocation.
buildSystemFlakeChecksHostnameLate(args, toolFailure) ==
  LET ref == IF "ref" \in DOMAIN args THEN args.ref ELSE Undefined
      gitRev == getRevisionFromRef(ref)
      hostnames == getFlakeHostnames(gitRev)
  IN IF toolFailure = "flake info" THEN FlakeFailure(ExternalToolFailure("flake info"), {})
     ELSE IF toolFailure = "flake show" THEN FlakeFailure(ExternalToolFailure("flake show"), {})
     ELSE IF toolFailure = "build"
       THEN FlakeFailure(ExternalToolFailure("build"), {<<gitRev, args.hostname>>})
     ELSE IF args.hostname \notin hostnames
       THEN FlakeFailure(UnknownHostname(hostnames), {<<gitRev, args.hostname>>})
     ELSE [ok |-> TRUE, error |-> NoError, built |-> {<<gitRev, args.hostname>>},
           derivation |-> DerivationOf(gitRev, args.hostname),
           output |-> ToplevelOf(gitRev, args.hostname),
           gitRevision |-> gitRev]

\* buildSystemFlake({flakeGitUri, hostname, ref, storeAbsolutePath}) when the
\* tool toolFailure names exits non-zero and the others print stdout of the given
\* shapes. The destructuring reads `ref` and nothing else selects a revision,
\* so an argument object that carries `rev` resolves the default revision. A
\* gitRev that is no string makes `?rev=${gitRev}` no revision: the tool given
\* it exits non-zero.
buildSystemFlakeOn(args, toolFailure, infoShape, buildShape) ==
  LET ref == IF "ref" \in DOMAIN args THEN args.ref ELSE Undefined
      resolved == getRevisionFromRefOn(ref, toolFailure = "flake info", infoShape)
      gitRev == resolved.value
      hostnames == getFlakeHostnames(gitRev.v)
      parsed == flakeBuildCommandResult(BuildStdout(buildShape, gitRev.v, args.hostname))
  IN IF ~resolved.ok THEN FlakeFailure(resolved.error, {})
     ELSE IF toolFailure = "flake show" \/ gitRev.type = "number"
       THEN FlakeFailure(ExternalToolFailure("flake show"), {})
     ELSE IF args.hostname \notin hostnames THEN FlakeFailure(UnknownHostname(hostnames), {})
     ELSE IF toolFailure = "build" \/ gitRev.type # "string"
       THEN FlakeFailure(ExternalToolFailure("build"), {<<gitRev.v, args.hostname>>})
     ELSE IF parsed.threw
       THEN FlakeFailure(ExternalOutputMalformed("build"), {<<gitRev.v, args.hostname>>})
     ELSE [ok |-> TRUE, error |-> NoError, built |-> {<<gitRev.v, args.hostname>>},
           derivation |-> parsed.drvPath,
           output |-> parsed.out,
           gitRevision |-> gitRev.v]

\* buildSystemFlake with every tool printing well-formed output
buildSystemFlake(args, toolFailure) == buildSystemFlakeOn(args, toolFailure, "ok", "ok")

\* ------------------------------------------------------------ nixArchive.ts, nixStore.ts
EmptyArchive == [data |-> {}, info |-> {}]

\* copyOutputToArchive: `nix copy --to file://<archive>` exports the closure of item
copyOutputToArchive(archive, item) == archive \cup ClosureOf({item})

\* getStoreDeltaPathsDelta: allResultingItems is the closure of the "to" root,
\* added the part of it outside the union of the "from" closures.
getStoreDeltaPathsDelta(fromRootPathNames, toRootPathName) ==
  LET F == ClosureOf(Range(fromRootPathNames))
      T == ClosureOf({toRootPathName})
  IN [added |-> T \ F, allResultingItems |-> T]

NoPathInfo == [added |-> {}, allResultingItems |-> {}]

\* makeArchiveSubset: the destination holds exactly the requested info and data
\* entries; a requested entry missing from the source archive is an error.
makeArchiveSubset(archive, infoItemPaths, dataItemPaths) ==
  IF (infoItemPaths \cup dataItemPaths) \subseteq archive
    THEN [ok |-> TRUE, dir |-> [data |-> dataItemPaths, info |-> infoItemPaths]]
    ELSE [ok |-> FALSE, dir |-> EmptyArchive]

\* ------------------------------------------------------------ loadArchive.ts: build
Modes == {"immediate", "next-reboot"}

StoreRoot(rev, path) == [gitRevision |-> rev, nixPath |-> path]

NoCommand == [kind |-> "none"]

\* An archive directory left in the instruction folder by an earlier build.
StaleArchive ==
  LET old == ClosureOf({ToplevelOf(NumRevs, "edge")})
  IN [data |-> old, info |-> old]

\* The target host while the build host works.
\* No separate call of a flake operation is being made.
IdleAdapter ==
  /\ acall = [op |-> "none"]
  /\ aret = [state |-> "idle"]

IdleExec ==
  /\ loadCmd = NoCommand
  /\ switchCmd = NoCommand
  /\ shipped = [data |-> {}, info |-> EmptyMap]
  /\ storePath = "/"
  /\ store = [r \in {"/", "/alt"} |-> {}]
  /\ system = [generations |-> <<>>, current |-> 0, boot |-> 0]
  /\ cache = EmptyMap
  /\ archiveInfo = EmptyMap
  /\ existingNarinfoFilePaths = {}
  /\ narinfoFiles = <<>>
  /\ epc = "idle"
  /\ eerror = NoError
  /\ run = 0
  /\ log = <<>>
  /\ atStart = <<>>
  /\ afterFirst = <<>>

InitBuild ==
  /\ IdleExec
  /\ IdleAdapter
  /\ flakeHead \in Revisions
  /\ bargs \in [hostname : Hostnames,
                deltaDependencyRevs : SeqsUpTo(Revisions, MaxDeps),
                partialNarinfos : BOOLEAN,
                newRev : Revisions,
                mode : Modes,
                archiveFolderName : {"archive"}]
  /\ bpc = "buildRevs"
  /\ oldRevBuildInfos = <<>>
  /\ newRevBuildInfo = NoBuildInfo
  /\ nixBuilds = {}
  /\ workdirArchive = {}
  /\ pathInfo = NoPathInfo
  /\ instrArchive \in {EmptyArchive, StaleArchive}
  /\ builtLoad = NoCommand
  /\ builtSwitch = NoCommand
  /\ berror = NoError

BuildThrow(error) ==
  /\ bpc' = "failed"
  /\ berror' = error

\* for (const rev of deltaDependencyRevs): one iteration
BuildPreviousRevision ==
  /\ bpc = "buildRevs"
  /\ Len(oldRevBuildInfos) < Len(bargs.deltaDependencyRevs)
  /\ \E toolFailure \in ToolFailures :
       LET rev == bargs.deltaDependencyRevs[Len(oldRevBuildInfos) + 1]
           info == buildSystemFlake([hostname |-> bargs.hostname, rev |-> rev], toolFailure)
       IN /\ nixBuilds' = nixBuilds \cup info.built
          /\ IF info.ok
               THEN /\ oldRevBuildInfos' = Append(oldRevBuildInfos,
                         [rev |-> rev, derivation |-> info.derivation,
                          output |-> info.output, gitRevision |-> info.gitRevision])
                    /\ UNCHANGED <<bpc, berror>>
               ELSE /\ BuildThrow(info.error)
                    /\ UNCHANGED oldRevBuildInfos
  /\ UNCHANGED <<evars, avars, flakeHead, bargs, newRevBuildInfo, workdirArchive, pathInfo,
                 instrArchive, builtLoad, builtSwitch>>

\* const newRevBuildInfo = await buildSystemFlake({..., rev: newRev})
BuildNewRevision ==
  /\ bpc = "buildRevs"
  /\ Len(oldRevBuildInfos) = Len(bargs.deltaDependencyRevs)
  /\ \E toolFailure \in ToolFailures :
       LET info == buildSystemFlake([hostname |-> bargs.hostname, rev |-> bargs.newRev],
                                    toolFailure)
       IN /\ nixBuilds' = nixBuilds \cup info.built
          /\ IF info.ok
               THEN /\ newRevBuildInfo' = [ok |-> TRUE, derivation |-> info.derivation,
                         output |-> info.output, gitRevision |-> info.gitRevision]
                    /\ bpc' = "copyToArchive"
                    /\ UNCHANGED berror
               ELSE /\ BuildThrow(info.error)
                    /\ UNCHANGED newRevBuildInfo
  /\ UNCHANGED <<evars, avars, flakeHead, bargs, oldRevBuildInfos, workdirArchive, pathInfo,
                 instrArchive, builtLoad, builtSwitch>>

\* await copyOutputToArchive({storePath, archivePath, item: newRevBuildInfo.output})
CopyToArchive ==
  /\ bpc = "copyToArchive"
  /\ \/ /\ workdirArchive' = copyOutputToArchive(workdirArchive, newRevBuildInfo.output)
        /\ bpc' = "pathInfo"
        /\ UNCHANGED berror
     \/ /\ BuildThrow(ExternalToolFailure("copy"))
        /\ UNCHANGED workdirArchive
  /\ UNCHANGED <<evars, avars, flakeHead, bargs, oldRevBuildInfos, newRevBuildInfo, nixBuilds, pathInfo,
                 instrArchive, builtLoad, builtSwitch>>

\* const pathInfo = await getStoreDeltaPathsDelta({...})
GetPathInfo ==
  /\ bpc = "pathInfo"
  /\ pathInfo' = getStoreDeltaPathsDelta(
                   [i \in DOMAIN oldRevBuildInfos |-> oldRevBuildInfos[i].output],
                   newRevBuildInfo.output)
  /\ bpc' = "rm"
  /\ UNCHANGED <<evars, avars, flakeHead, bargs, oldRevBuildInfos, newRevBuildInfo, nixBuilds,
                 workdirArchive, instrArchive, builtLoad, builtSwitch, berror>>

\* await fs.promises.rm(archiveFolderPath, { force: true, recursive: true })
RemoveOldArchive ==
  /\ bpc = "rm"
  /\ instrArchive' = EmptyArchive
  /\ bpc' = "subset"
  /\ UNCHANGED <<evars, avars, flakeHead, bargs, oldRevBuildInfos, newRevBuildInfo, nixBuilds,
                 workdirArchive, pathInfo, builtLoad, builtSwitch, berror>>

\* A slip that inverts the partialNarinfos test.
infoItemPathsInverted(partialNarinfos, info) ==
  IF partialNarinfos THEN info.allResultingItems ELSE info.added

\* infoItemPaths: partialNarinfos ? added paths : allResultingItems paths
infoItemPaths(partialNarinfos, info) ==
  IF partialNarinfos THEN info.added ELSE info.allResultingItems

\* dataItemPaths: pathInfo.added.map((info) => info.path)
dataItemPaths(info) == info.added

\* await makeArchiveSubset({archivePath, destinationPath, infoItemPaths, dataItemPaths})
MakeArchive ==
  /\ bpc = "subset"
  /\ LET made == makeArchiveSubset(workdirArchive,
                                   infoItemPaths(bargs.partialNarinfos, pathInfo),
                                   dataItemPaths(pathInfo))
     IN IF made.ok
          THEN /\ instrArchive' = made.dir
               /\ bpc' = "return"
               /\ UNCHANGED berror
          ELSE /\ BuildThrow([kind |-> "ArchiveIncomplete", op |-> "makeArchiveSubset",
                              available |-> {}])
               /\ UNCHANGED instrArchive
  /\ UNCHANGED <<evars, avars, flakeHead, bargs, oldRevBuildInfos, newRevBuildInfo, nixBuilds,
                 workdirArchive, pathInfo, builtLoad, builtSwitch>>

\* return { kind, archivePath, deltaDependencies, item, partialNarinfos }
ReturnLoad ==
  /\ bpc = "return"
  /\ builtLoad' =
       [kind |-> "load",
        archivePath |-> bargs.archiveFolderName,
        deltaDependencies |->
          [i \in DOMAIN oldRevBuildInfos |->
             StoreRoot(oldRevBuildInfos[i].rev, oldRevBuildInfos[i].output)],
        item |-> StoreRoot(bargs.newRev, newRevBuildInfo.output),
        partialNarinfos |-> bargs.partialNarinfos]
  /\ bpc' = "switch"
  /\ UNCHANGED <<evars, avars, flakeHead, bargs, oldRevBuildInfos, newRevBuildInfo, nixBuilds,
                 workdirArchive, pathInfo, instrArchive, builtSwitch, berror>>

\* buildStoreSwitchCommand({kind, flakeGitUri, hostname, rev, mode})
BuildSwitch ==
  /\ bpc = "switch"
  /\ \E toolFailure \in ToolFailures :
       LET info == buildSystemFlake([hostname |-> bargs.hostname, rev |-> bargs.newRev],
                                    toolFailure)
       IN /\ nixBuilds' = nixBuilds \cup info.built
          /\ IF info.ok
               THEN /\ builtSwitch' =
                         [kind |-> "switch",
                          item |-> StoreRoot(bargs.newRev, info.output),
                          mode |-> bargs.mode]
                    /\ bpc' = "done"
                    /\ UNCHANGED berror
               ELSE /\ BuildThrow(info.error)
                    /\ UNCHANGED builtSwitch
  /\ UNCHANGED <<evars, avars, flakeHead, bargs, oldRevBuildInfos, newRevBuildInfo, workdirArchive,
                 pathInfo, instrArchive, builtLoad>>

\* ------------------------------------------------------------ the target host
\* Content of the info files an instruction ships.
ShippedContent == 1

\* Contents an info file of the client-state cache may carry: the one this
\* instruction ships, or the one an earlier export wrote.
Contents == {ShippedContent, ShippedContent + 1}

StoreRootDirs == {"/", "/alt"}

\* storePath == "/" ? undefined : storePath
StoreArg(path) == IF path = "/" THEN "undefined" ELSE path

\* The store a tool works on: the root store when no store is named.
StoreDir(arg) == IF arg = "undefined" THEN "/" ELSE arg

DepClosure(cmd) == ClosureOf({cmd.deltaDependencies[i].nixPath : i \in DOMAIN cmd.deltaDependencies})

ItemClosure(cmd) == ClosureOf({cmd.item.nixPath})

\* The Load command a build for testvm emits for these revisions (schema
\* loadArchiveDeltaCommandSchema), with the archive directory it writes.
LoadFor(depRevs, itemRev, partialNarinfos) ==
  [kind |-> "load",
   archivePath |-> "archive",
   deltaDependencies |->
     [i \in DOMAIN depRevs |-> StoreRoot(depRevs[i], ToplevelOf(depRevs[i], "testvm"))],
   partialNarinfos |-> partialNarinfos,
   item |-> StoreRoot(itemRev, ToplevelOf(itemRev, "testvm"))]

ArchiveFor(cmd) ==
  LET delta == getStoreDeltaPathsDelta(
                 [i \in DOMAIN cmd.deltaDependencies |-> cmd.deltaDependencies[i].nixPath],
                 cmd.item.nixPath)
  IN [data |-> dataItemPaths(delta),
      info |-> [n \in infoItemPaths(cmd.partialNarinfos, delta) |-> ShippedContent]]

\* Name sets of the client-state cache a target may hold before the instruction.
CacheNameSets(cmd) ==
  LET D == DepClosure(cmd)
  IN {{}, D, D \cup ItemClosure(cmd)} \cup {D \ {p} : p \in D}

NoSystem == [generations |-> <<>>, current |-> 0, boot |-> 0]

\* A target whose root store holds the dependencies runs the first of them.
SystemOn(rootStore, cmd) ==
  IF cmd.deltaDependencies # <<>> /\ cmd.deltaDependencies[1].nixPath \in rootStore
    THEN [generations |-> <<cmd.deltaDependencies[1].nixPath>>,
          current |-> cmd.deltaDependencies[1].nixPath,
          boot |-> cmd.deltaDependencies[1].nixPath]
    ELSE NoSystem

Snapshot == [cache |-> cache, store |-> store, system |-> system]

IdleBuild ==
  /\ flakeHead = 1
  /\ bargs = NoCommand
  /\ bpc = "idle"
  /\ oldRevBuildInfos = <<>>
  /\ newRevBuildInfo = NoBuildInfo
  /\ nixBuilds = {}
  /\ workdirArchive = {}
  /\ pathInfo = NoPathInfo
  /\ instrArchive = EmptyArchive
  /\ builtLoad = NoCommand
  /\ builtSwitch = NoCommand
  /\ berror = NoError

\* The instruction is decompressed and validated; the first command is about to run.
InitExec ==
  /\ IdleBuild
  /\ IdleAdapter
  /\ \E depRevs \in SeqsUpTo(Revisions, MaxDeps), itemRev \in Revisions,
        partial \in BOOLEAN, mode \in Modes :
       /\ loadCmd = LoadFor(depRevs, itemRev, partial)
       /\ switchCmd = [kind |-> "switch", item |-> loadCmd.item, mode |-> mode]
  /\ shipped = ArchiveFor(loadCmd)
  /\ archiveInfo = shipped.info
  /\ storePath \in StoreRootDirs
  /\ \E target \in {{}, DepClosure(loadCmd), DepClosure(loadCmd) \cup ItemClosure(loadCmd)},
        other \in {{}, DepClosure(loadCmd) \cup ItemClosure(loadCmd)} :
       store = [r \in StoreRootDirs |->
                  IF r = storePath THEN target
                  ELSE IF storePath = "/" THEN {} ELSE other]
  /\ system = SystemOn(store["/"], loadCmd)
  /\ \E names \in CacheNameSets(loadCmd), c \in Contents : cache = [n \in names |-> c]
  /\ existingNarinfoFilePaths = {}
  /\ narinfoFiles = <<>>
  /\ epc = "snapshot"
  /\ eerror = NoError
  /\ run = 1
  /\ log = <<>>
  /\ atStart = Snapshot
  /\ afterFirst = <<>>

ExecThrow(kind, op) ==
  /\ epc' = "failed"
  /\ eerror' = [kind |-> kind, op |-> op, available |-> {}]

\* getAbsoluteNarinfoListInDir: the info files a directory holds now
getAbsoluteNarinfoListInDir(dir) == DOMAIN dir

\* getNarinfoFileListForNixPaths: the info files of the client-state cache whose
\* store path is in the closure of one of nixPaths
getNarinfoFileListForNixPaths(clientStateStore, nixPaths) ==
  {n \in DOMAIN clientStateStore : n \in ClosureOf(nixPaths)}

\* copyNarinfoFilesToCache: copies the files at the listed paths, as they are
\* now, into the cache by basename, overwriting duplicates
copyNarinfoFilesToCache(clientStateStore, narinfoFilePaths, dir) ==
  Overwrite(clientStateStore, Restrict(dir, narinfoFilePaths))

\* const existingNarinfoFilePaths = await getAbsoluteNarinfoListInDir(absoluteArchivePath)
ListArchiveNarinfos ==
  /\ epc = "snapshot"
  /\ existingNarinfoFilePaths' = getAbsoluteNarinfoListInDir(archiveInfo)
  /\ epc' = "lookup"
  /\ log' = Append(log, "snapshot")
  /\ UNCHANGED <<bvars, avars, loadCmd, switchCmd, shipped, storePath, store, system, cache,
                 archiveInfo, narinfoFiles, eerror, run, atStart, afterFirst>>

\* const narinfoFiles = await getNarinfoFileListForNixPaths({...})
LookupDependencyNarinfos ==
  /\ epc = "lookup"
  /\ narinfoFiles' = SortedSeq(getNarinfoFileListForNixPaths(cache,
                       {loadCmd.deltaDependencies[i].nixPath :
                          i \in DOMAIN loadCmd.deltaDependencies}))
  /\ epc' = IF narinfoFiles' = <<>> THEN "import" ELSE "enrich"
  /\ log' = Append(log, "lookup")
  /\ UNCHANGED <<bvars, avars, loadCmd, switchCmd, shipped, storePath, store, system, cache,
                 archiveInfo, existingNarinfoFilePaths, eerror, run, atStart, afterFirst>>

\* for (const narinfoFile of narinfoFiles): await fs.promises.copyFile(...)
CopyNarinfoToArchive ==
  /\ epc = "enrich"
  /\ \/ /\ archiveInfo' = Overwrite(archiveInfo,
                                    Restrict(cache, {Head(narinfoFiles)}))
        /\ narinfoFiles' = Tail(narinfoFiles)
        /\ epc' = IF narinfoFiles' = <<>> THEN "import" ELSE "enrich"
        /\ log' = Append(log, "copy")
        /\ UNCHANGED eerror
     \/ /\ ExecThrow("FsError", "copyFile")
        /\ log' = Append(log, "copy failed")
        /\ UNCHANGED <<archiveInfo, narinfoFiles>>
  /\ UNCHANGED <<bvars, avars, loadCmd, switchCmd, shipped, storePath, store, system, cache,
                 existingNarinfoFilePaths, run, atStart, afterFirst>>

\* copyArchiveToStore can import item: the archive holds an info file for every
\* path of its closure and the data of every such path the store lacks.
Importable(dir, data, item, present) ==
  /\ ClosureOf({item}) \subseteq DOMAIN dir
  /\ (ClosureOf({item}) \ present) \subseteq data

\* What a refused import may have copied already (imports are atomic per path).
PartialImports(dir, data, item, present) ==
  {{}} \cup
  {IF ClosureOf({item}) \subseteq DOMAIN dir
     THEN (ClosureOf({item}) \ {item}) \cap data
     ELSE {}}

\* The import fails and a handler removes the item's closure from the store.
CopyArchiveToStoreRollsBack ==
  /\ epc = "import"
  /\ \/ /\ Importable(archiveInfo, shipped.data, loadCmd.item.nixPath,
                      store[StoreDir(StoreArg(storePath))])
        /\ store' = [store EXCEPT ![StoreDir(StoreArg(storePath))] =
                       @ \cup ItemClosure(loadCmd)]
        /\ epc' = "cache"
        /\ log' = Append(log, "import")
        /\ UNCHANGED eerror
     \/ /\ store' = [store EXCEPT ![StoreDir(StoreArg(storePath))] = @ \ ItemClosure(loadCmd)]
        /\ ExecThrow("ImportFailed", "copyArchiveToStore")
        /\ log' = Append(log, "import failed")
  /\ UNCHANGED <<bvars, avars, loadCmd, switchCmd, shipped, storePath, system, cache,
                 archiveInfo, existingNarinfoFilePaths, narinfoFiles, run, atStart,
                 afterFirst>>

\* The cache is updated in a `finally` of the import.
CopyArchiveToStoreThenCacheAlways ==
  /\ epc = "import"
  /\ \/ /\ Importable(archiveInfo, shipped.data, loadCmd.item.nixPath,
                      store[StoreDir(StoreArg(storePath))])
        /\ store' = [store EXCEPT ![StoreDir(StoreArg(storePath))] =
                       @ \cup ItemClosure(loadCmd)]
        /\ epc' = "cache"
        /\ log' = Append(log, "import")
        /\ UNCHANGED <<eerror, cache>>
     \/ /\ cache' = copyNarinfoFilesToCache(cache, existingNarinfoFilePaths, archiveInfo)
        /\ ExecThrow("ImportFailed", "copyArchiveToStore")
        /\ log' = Append(log, "import failed")
        /\ UNCHANGED store
  /\ UNCHANGED <<bvars, avars, loadCmd, switchCmd, shipped, storePath, system,
                 archiveInfo, existingNarinfoFilePaths, narinfoFiles, run, atStart,
                 afterFirst>>

\* await copyArchiveToStore({archivePath, item: item.nixPath, storePath})
CopyArchiveToStore ==
  /\ epc = "import"
  /\ \/ /\ Importable(archiveInfo, shipped.data, loadCmd.item.nixPath,
                      store[StoreDir(StoreArg(storePath))])
        /\ store' = [store EXCEPT ![StoreDir(StoreArg(storePath))] =
                       @ \cup ItemClosure(loadCmd)]
        /\ epc' = "cache"
        /\ log' = Append(log, "import")
        /\ UNCHANGED eerror
     \/ /\ \E copied \in PartialImports(archiveInfo, shipped.data, loadCmd.item.nixPath,
                                         store[StoreDir(StoreArg(storePath))]) :
             store' = [store EXCEPT ![StoreDir(StoreArg(storePath))] = @ \cup copied]
        /\ ExecThrow("ImportFailed", "copyArchiveToStore")
        /\ log' = Append(log, "import failed")
  /\ UNCHANGED <<bvars, avars, loadCmd, switchCmd, shipped, storePath, system, cache,
                 archiveInfo, existingNarinfoFilePaths, narinfoFiles, run, atStart,
                 afterFirst>>

\* The cache update is placed ahead of the import.
UpdateCacheBeforeImport ==
  /\ epc = "import"
  /\ epc' = "cache"
  /\ cache' = copyNarinfoFilesToCache(cache, existingNarinfoFilePaths, archiveInfo)
  /\ log' = Append(log, "cache")
  /\ UNCHANGED <<bvars, avars, loadCmd, switchCmd, shipped, storePath, store, system,
                 archiveInfo, existingNarinfoFilePaths, narinfoFiles, eerror, run,
                 atStart, afterFirst>>

\* await copyNarinfoFilesToCache({clientStateStorePath, narinfoFilePaths: existingNarinfoFilePaths})
UpdateCache ==
  /\ epc = "cache"
  /\ \/ /\ cache' = copyNarinfoFilesToCache(cache, existingNarinfoFilePaths, archiveInfo)
        /\ epc' = "switch"
        /\ log' = Append(log, "cache")
        /\ UNCHANGED eerror
     \/ /\ ExecThrow("FsError", "copyNarinfoFilesToCache")
        /\ log' = Append(log, "cache failed")
        /\ UNCHANGED cache
  /\ UNCHANGED <<bvars, avars, loadCmd, switchCmd, shipped, storePath, store, system,
                 archiveInfo, existingNarinfoFilePaths, narinfoFiles, run, atStart,
                 afterFirst>>

\* makeNewSystemGeneration: the item becomes the newest generation of the system
\* profile and the boot default; "switch" also makes it the running system.
makeNewSystemGeneration(sys, present, nixItemPath, executeActivation) ==
  IF nixItemPath \notin present
    THEN [ok |-> FALSE, system |-> sys]
    ELSE [ok |-> TRUE,
          system |->
            [generations |->
               IF sys.generations # <<>>
                  /\ sys.generations[Len(sys.generations)] = nixItemPath
                 THEN sys.generations
                 ELSE Append(sys.generations, nixItemPath),
             boot |-> nixItemPath,
             current |-> IF executeActivation = "switch" THEN nixItemPath
                         ELSE sys.current]]

\* executeStoreSwitchCommand(args, shared):
\*   makeNewSystemGeneration({storePath: "/", nixItemPath, executeActivation: "switch"})
executeStoreSwitchCommand ==
  /\ epc = "switch"
  /\ LET made == makeNewSystemGeneration(system, store["/"], switchCmd.item.nixPath,
                                         "switch")
     IN \/ /\ made.ok
           /\ system' = made.system
           /\ epc' = "done"
           /\ log' = Append(log, "switch")
           /\ UNCHANGED eerror
        \/ /\ ExecThrow("ActivationFailed", "makeNewSystemGeneration")
           /\ log' = Append(log, "switch failed")
           /\ UNCHANGED system
  /\ UNCHANGED <<bvars, avars, loadCmd, switchCmd, shipped, storePath, store, cache,
                 archiveInfo, existingNarinfoFilePaths, narinfoFiles, run, atStart,
                 afterFirst>>

\* The same instruction file is executed again: it is decompressed afresh
\* and its commands run from the first.
ExecuteAgain ==
  /\ epc = "done"
  /\ run = 1
  /\ run' = 2
  /\ afterFirst' = [store |-> store, system |-> system]
  /\ atStart' = Snapshot
  /\ archiveInfo' = shipped.info
  /\ existingNarinfoFilePaths' = {}
  /\ narinfoFiles' = <<>>
  /\ log' = <<>>
  /\ epc' = "snapshot"
  /\ UNCHANGED <<bvars, avars, loadCmd, switchCmd, shipped, storePath, store, system, cache,
                 eerror>>

NextExec ==
  \/ ListArchiveNarinfos
  \/ LookupDependencyNarinfos
  \/ CopyNarinfoToArchive
  \/ CopyArchiveToStore
  \/ UpdateCache
  \/ executeStoreSwitchCommand
  \/ ExecuteAgain

SpecExec == InitExec /\ [][NextExec]_vars

NextBuild ==
  \/ BuildPreviousRevision
  \/ BuildNewRevision
  \/ CopyToArchive
  \/ GetPathInfo
  \/ RemoveOldArchive
  \/ MakeArchive
  \/ ReturnLoad
  \/ BuildSwitch

SpecBuild == InitBuild /\ [][NextBuild]_vars

\* ------------------------------------------------ one flake operation called
\* The refs a caller may pass: none, or a revision of the flake.
Refs == {Undefined} \cup Revisions

\* One call of getRevisionFromRef or of buildSystemFlake, against a flake whose
\* default revision is flakeHead, with the tools failing or printing any shape.
InitAdapter ==
  /\ IdleExec
  /\ flakeHead \in Revisions
  /\ bargs = NoCommand
  /\ bpc = "idle"
  /\ oldRevBuildInfos = <<>>
  /\ newRevBuildInfo = NoBuildInfo
  /\ nixBuilds = {}
  /\ workdirArchive = {}
  /\ pathInfo = NoPathInfo
  /\ instrArchive = EmptyArchive
  /\ builtLoad = NoCommand
  /\ builtSwitch = NoCommand
  /\ berror = NoError
  /\ acall \in [op : {"getRevisionFromRef"}, ref : Refs, hostname : {"testvm"},
                 toolFailure : {"none", "flake info"}, infoShape : InfoShapes,
                 buildShape : {"ok"}]
           \cup [op : {"buildSystemFlake"}, ref : Refs, hostname : Hostnames,
                 toolFailure : ToolFailures, infoShape : InfoShapes,
                 buildShape : BuildShapes]
  /\ aret = [state |-> "pending"]

\* const revision = await getRevisionFromRef({flakeGitUri, ref})
CallGetRevisionFromRef ==
  /\ acall.op = "getRevisionFromRef"
  /\ aret.state = "pending"
  /\ LET result == getRevisionFromRefOn(acall.ref, acall.toolFailure = "flake info",
                                         acall.infoShape)
     IN aret' = [state |-> IF result.ok THEN "returned" ELSE "threw",
                 error |-> result.error,
                 value |-> result.value,
                 built |-> {}]
  /\ UNCHANGED <<bvars, evars, acall>>

\* const buildInfo = await buildSystemFlake({flakeGitUri, hostname, ref})
CallBuildSystemFlake ==
  /\ acall.op = "buildSystemFlake"
  /\ aret.state = "pending"
  /\ LET result == buildSystemFlakeOn([hostname |-> acall.hostname, ref |-> acall.ref],
                                       acall.toolFailure, acall.infoShape,
                                       acall.buildShape)
     IN aret' = [state |-> IF result.ok THEN "returned" ELSE "threw",
                 error |-> result.error,
                 value |-> IF result.ok THEN JsString(result.output) ELSE JsUndefined,
                 built |-> result.built]
  /\ UNCHANGED <<bvars, evars, acall>>

NextAdapter ==
  \/ CallGetRevisionFromRef
  \/ CallBuildSystemFlake

SpecAdapter == InitAdapter /\ [][NextAdapter]_vars

\* Either host at work, or one flake operation called on its own.
Init == InitBuild \/ InitExec \/ InitAdapter

Next == NextBuild \/ NextExec \/ NextAdapter

Spec == Init /\ [][Next]_vars

\* ============================================================ properties
LoadSucceeded == "cache" \in Range(log)

ImportStarted == "import" \in Range(log) \/ "import failed" \in Range(log)

\* C1: executing a Switch whose mode is "next-reboot" creates the generation for
\* item.nixPath and leaves the running system as it was; mode "immediate" makes
\* the item the running system.
C1_ModeDecidesActivation ==
  (run = 1 /\ epc = "done") =>
    /\ system.generations # <<>>
    /\ system.generations[Len(system.generations)] = switchCmd.item.nixPath
    /\ switchCmd.mode = "next-reboot" => system.current = atStart.system.current
    /\ switchCmd.mode = "immediate" => system.current = switchCmd.item.nixPath

EmittedStoreRoots ==
  (IF builtLoad.kind = "load"
     THEN {builtLoad.item} \cup Range(builtLoad.deltaDependencies)
     ELSE {})
  \cup (IF builtSwitch.kind = "switch" THEN {builtSwitch.item} ELSE {})

\* C2: every StoreRoot the build functions emit has as nixPath the toplevel
\* output of the hostname at that StoreRoot's own gitRevision.
C2_StoreRootBuiltAtItsRevision ==
  \A root \in EmittedStoreRoots :
    root.nixPath = ToplevelOf(root.gitRevision, bargs.hostname)

\* Some path of the deltaDependencies closures has its info file neither in the
\* client-state cache nor, as a store path, in the target store.
MissingDependencyInfo ==
  \E p \in DepClosure(loadCmd) :
    /\ p \notin DOMAIN atStart.cache
    /\ p \notin atStart.store[storePath]

\* C3: with partialNarinfos and a dependency info file missing, Load.execute
\* fails with MissingDependencyMetadata before the import is attempted, and
\* store, cache and generations stay as they were.
C3_MissingDependencyMetadataBeforeImport ==
  (run = 1 /\ loadCmd.partialNarinfos /\ MissingDependencyInfo) =>
    /\ ~ImportStarted
    /\ (epc = "failed" /\ eerror.op # "copyFile")
         => eerror.kind = "MissingDependencyMetadata"
    /\ store = atStart.store
    /\ cache = atStart.cache
    /\ system = atStart.system

\* C4: an execution of Load.execute in which the enrichment or the store import
\* fails ends with the cache as it was at the start; the cache differs from its
\* start only once the import of this execution has succeeded.
C4_CacheUnchangedUnlessLoadSucceeded ==
  /\ (epc = "failed" /\ eerror.op \in {"copyFile", "copyArchiveToStore"})
       => cache = atStart.cache
  /\ cache # atStart.cache => "import" \in Range(log)

C4_Witness ==
  /\ epc = "failed"
  /\ eerror.op = "copyArchiveToStore"
  /\ \E n \in existingNarinfoFilePaths : n \notin DOMAIN cache

\* C5: the archive directory a Load build writes holds data entries for exactly
\* the paths added between the emitted deltaDependencies and the emitted item,
\* and info entries for exactly the added paths when partialNarinfos, for the
\* whole closure of the item otherwise; nothing of an earlier directory is left.
C5_ArchiveIsTheDelta ==
  builtLoad.kind = "load" =>
    LET from == ClosureOf({builtLoad.deltaDependencies[i].nixPath :
                             i \in DOMAIN builtLoad.deltaDependencies})
        to == ClosureOf({builtLoad.item.nixPath})
    IN /\ instrArchive.data = to \ from
       /\ instrArchive.info = IF builtLoad.partialNarinfos THEN to \ from ELSE to

C5_Witness ==
  /\ builtLoad.kind = "load"
  /\ builtLoad.partialNarinfos
  /\ builtLoad.deltaDependencies # <<>>
  /\ instrArchive.info # ClosureOf({builtLoad.item.nixPath})

\* C6: when the hostname is not among the configurations the flake declares at
\* the revision the build resolves, nix build is never invoked, nothing is
\* exported, no delta is computed, the instruction's archive directory is not
\* touched, no command is emitted, and the hostname test fails the build with
\* UnknownHostname listing the declared hostnames.
C6_UnknownHostnameBeforeAnyBuild ==
  /\ berror.kind = "UnknownHostname" =>
       /\ berror.available = DeclaredHostnames(flakeHead)
       /\ bargs.hostname \notin berror.available
  /\ (bpc # "idle" /\ bargs.hostname \notin DeclaredHostnames(flakeHead)) =>
       /\ nixBuilds = {}
       /\ workdirArchive = {}
       /\ pathInfo = NoPathInfo
       /\ instrArchive \in {EmptyArchive, StaleArchive}
       /\ builtLoad = NoCommand
       /\ builtSwitch = NoCommand
       /\ bpc \in {"buildRevs", "failed"}
       /\ bpc = "failed" =>
            \/ berror.kind = "UnknownHostname"
            \/ berror \in {ExternalToolFailure("flake info"),
                           ExternalToolFailure("flake show")}

C6_Witness ==
  /\ bpc = "failed"
  /\ berror = UnknownHostname({"testvm"})
  /\ bargs.hostname = "ghost"
  /\ instrArchive = StaleArchive

\* C7: once an instruction (Load, then Switch) has been executed, executing it
\* again leaves the stores' paths and the running generation as the first
\* execution left them.
C7_ExecutionIdempotent ==
  (run = 2 /\ epc \in {"done", "failed"}) =>
    /\ store = afterFirst.store
    /\ system.current = afterFirst.system.current

C7_Witness ==
  /\ run = 2
  /\ epc = "done"
  /\ shipped.data # {}
  /\ system.current = switchCmd.item.nixPath

\* C8: after a successful Load.execute the cache is the cache of the start plus
\* the info files the instruction shipped, each with the content it shipped.
C8_CacheGainsShippedSnapshot ==
  (run = 1 /\ LoadSucceeded) =>
    cache = Overwrite(atStart.cache, shipped.info)

\* C9: when the Switch runs after the Load of the same item, item.nixPath is
\* present in the store the Switch activates against, whatever store root the
\* executor was given.
C9_ItemPresentWhereSwitchActivates ==
  (epc = "switch" /\ LoadSucceeded) => switchCmd.item.nixPath \in store["/"]

StepRank(step) ==
  IF step = "snapshot" THEN 1
  ELSE IF step = "lookup" THEN 2
  ELSE IF step \in {"copy", "copy failed"} THEN 3
  ELSE IF step \in {"import", "import failed"} THEN 4
  ELSE IF step \in {"cache", "cache failed"} THEN 5
  ELSE 6

\* C10: the sub-steps of Load.execute happen in the order snapshot, dependency
\* lookup and copies, import, cache append: the import starts with every
\* dependency info file copied and no copy follows it, and the cache append
\* follows a completed import.
C10_LoadSubstepsOrdered ==
  /\ \A i, j \in DOMAIN log :
       i < j => /\ StepRank(log[i]) <= StepRank(log[j])
                /\ StepRank(log[i]) = StepRank(log[j]) => log[i] = "copy"
  /\ log # <<>> => log[1] = "snapshot"
  /\ archiveInfo # shipped.info => existingNarinfoFilePaths = DOMAIN shipped.info
  /\ ImportStarted =>
       /\ "lookup" \in Range(log)
       /\ narinfoFiles = <<>>
       /\ archiveInfo = Overwrite(shipped.info,
                                  Restrict(atStart.cache, DepClosure(loadCmd)))
  /\ ("cache" \in Range(log) \/ "cache failed" \in Range(log)) => "import" \in Range(log)
  /\ cache # atStart.cache => "cache" \in Range(log)

C10_Witness ==
  /\ run = 1
  /\ "cache" \in Range(log)
  /\ Len(SelectSeq(log, LAMBDA step : step = "copy")) >= 2
  /\ cache # atStart.cache

\* --------------------------------------------------------------- flake output
\* The tool of the call exited zero and printed something other than the
\* well-formed output: for getRevisionFromRef the flake info, for
\* buildSystemFlake the build (reached with every earlier tool well-behaved).
MalformedOutputRead ==
  \/ /\ acall.op = "getRevisionFromRef"
     /\ acall.toolFailure = "none"
     /\ acall.infoShape # "ok"
  \/ /\ acall.op = "buildSystemFlake"
     /\ acall.toolFailure = "none"
     /\ acall.infoShape = "ok"
     /\ acall.hostname \in getFlakeHostnames(acall.ref)
     /\ acall.buildShape # "ok"

\* C11: when an external tool exits successfully and prints output that cannot
\* be parsed into the expected shape (a revision string for the flake info, a
\* one-element array with a derivation path and an output path for the build),
\* the operation fails with ExternalOutputMalformed and returns no value.
C11_MalformedOutputIsRejected ==
  /\ (aret.state \in {"returned", "threw"} /\ MalformedOutputRead) =>
       /\ aret.state = "threw"
       /\ aret.error.kind = "ExternalOutputMalformed"
  /\ (acall.op = "getRevisionFromRef" /\ aret.state = "returned") =>
       aret.value.type = "string"

====
